---- MODULE Spec2Model ----
(***************************************************************************)
(* A model of the nexcache LRU cache (package lrucache): the index map,    *)
(* the recency list, the entries with their expiry, the read-through       *)
(* loaders, the background cleanup with its stop channel, and the saving   *)
(* and loading of snapshots through encoding/json.                         *)
(*                                                                         *)
(* Every method body that runs between c.mu.Lock() and c.mu.Unlock() is    *)
(* one atomic action.  GetOrLoad and GetOrLoadWithFallback are two such    *)
(* sections with the loader running between them, so they are two actions  *)
(* with the caller parked at "loading" in between.  SpecLock takes the     *)
(* loop of cleanupExpiredEntries one element at a time instead, with the   *)
(* lock held across the steps.                                             *)
(*                                                                         *)
(* A *list.Element is modelled by an element name; ent[el] is the          *)
(* *CacheEntry the element carries.  time.Time is a natural number.        *)
(*                                                                         *)
(* last holds the critical section that has just completed, with the       *)
(* state it started from, until Return hands the result to the caller;     *)
(* the next critical section starts after that, so the properties of an    *)
(* operation are state predicates on last.                                 *)
(***************************************************************************)
EXTENDS Naturals, Sequences, FiniteSets, TLC

\* ------------------------------------------------------------- bounds
MaxCapacity == 2
TTL == 2
MaxTime == 3

Keys == {"A", "B", "C"}
\* The keys used where the cache saves its own file (SpecSave).
SaveKeys == {"A", "B"}
\* The values callers store: a Go string and a struct whose fields are all
\* unexported (the CacheRecord of the package's test).
CacheRecord == "CacheRecord{id: 1}"
Values == {"v1", CacheRecord}
Procs == {"p1"}
\* The callers where two calls of GetOrLoad overlap (SpecLoad), and their keys.
Callers == {"p1", "p2"}
LoadKeys == {"A", "B"}
Fallbacks == {"fb"}

Nil == "nil"

\* What os.Open and the JSON decoder make of a file: no such file, content
\* that does not decode, or the decoded []CacheEntry.
NoFile == [kind |-> "nofile", entries |-> << >>]
Undecodable == [kind |-> "undecodable", entries |-> << >>]
Snapshot(entries) == [kind |-> "snapshot", entries |-> entries]

\* encoding/json on a CacheEntry.Value of type interface{}: Marshal writes a
\* string as a JSON string, a struct as the object of its exported fields and
\* nil as null; Unmarshal into an interface{} makes a string of a JSON string,
\* a map[string]interface{} of an object and nil of null.
EmptyMap == "map[string]interface{}{}"

Marshal(v) ==
    CASE v = "v1" -> "\"v1\""
      [] v = "v2" -> "\"v2\""
      [] v = CacheRecord -> "{}"
      [] v = EmptyMap -> "{}"
      [] v = Nil -> "null"

Unmarshal(j) ==
    CASE j = "\"v1\"" -> "v1"
      [] j = "\"v2\"" -> "v2"
      [] j = "{}" -> EmptyMap
      [] j = "null" -> Nil

\* time.Time is written as its RFC 3339 text with nanoseconds and parsed back.
Times == 0..(MaxTime + TTL + 1)

FormatTime(t) == ToString(t)

ParseTime(x) == CHOOSE t \in Times : ToString(t) = x

VARIABLES
    capacity,   \* LRUCache.capacity
    ttl,        \* LRUCache.ttl
    cache,      \* LRUCache.cache : key -> element
    list,       \* LRUCache.list  : elements, front first
    ent,        \* element -> the CacheEntry it carries
    mu,         \* LRUCache.mu: the goroutines inside a critical section
                \* that spans more than one step
    scan,       \* the loop of cleanupExpiredEntries when taken step by step:
                \* whether it is running, the element it is at (none: nil),
                \* and how many elements it has removed
    stopCh,     \* LRUCache.stopCh: "open" or "closed"
    reaper,     \* the goroutine startCleanup: "running" or "exited"
    now,        \* the clock read by time.Now()
    procs,      \* callers of GetOrLoad / GetOrLoadWithFallback
    file,       \* content of the snapshot file written by this cache
    saved,      \* history: the entries, front first, that the last
                \* successful SaveToFile read from the list
    touched,    \* history: the stored keys, most recently touched first
    began,      \* history: for each caller whose loader is running, the state
                \* its call started from, while no other operation has
                \* changed the state
    written,    \* history: the keys some caller is loading that have been
                \* written since the last lookup that missed them
    last        \* the operation that has just completed, until its caller has
                \* taken the result: arguments, result, state before, time

vars == <<capacity, ttl, mu, scan, stopCh, reaper, cache, list, ent, now, procs, file, saved, touched, began, written, last>>

\* ------------------------------------------------------------- container/list
Range(s) == {s[i] : i \in 1..Len(s)}

Restrict(f, S) == [x \in S |-> f[x]]

Back(l) == l[Len(l)]

Remove(l, el) == SelectSeq(l, LAMBDA x : x # el)

PushFront(l, el) == <<el>> \o l

MoveToFront(l, el) == IF el \in Range(l) THEN <<el>> \o Remove(l, el) ELSE l

\* A freshly allocated element for an entry of this key: a name no live
\* element has (the key and the number of live elements made for that key).
NewElement(l, key) ==
    LET n == CHOOSE i \in 0..Len(l) :
                 /\ <<key, i>> \notin Range(l)
                 /\ \A j \in 0..(i - 1) : <<key, j>> \in Range(l)
    IN  <<key, n>>

\* ------------------------------------------------------------- entries
Entry(k, v, x) == [Key |-> k, Value |-> v, ExpiresAt |-> x]

\* time.Now().After(entry.ExpiresAt)
After(t, x) == t > x

\* time.Now().Before(entry.ExpiresAt)
Before(t, x) == t < x

\* ------------------------------------------------------------- the cache state
State == [cache |-> cache, list |-> list, ent |-> ent]

Empty == [cache |-> << >>, list |-> << >>, ent |-> << >>]

removeElement(s, el) ==
    [cache |-> Restrict(s.cache, DOMAIN s.cache \ {s.ent[el].Key}),
     list  |-> Remove(s.list, el),
     ent   |-> Restrict(s.ent, DOMAIN s.ent \ {el})]

ejectOldest_front(s) ==
    IF Len(s.list) > 0 THEN removeElement(s, s.list[1]) ELSE s

ejectOldest(s) ==
    IF Len(s.list) > 0 THEN removeElement(s, Back(s.list)) ELSE s

GetOp_refreshTTL(s, key, t) ==
    IF key \in DOMAIN s.cache
    THEN LET el == s.cache[key] IN
         IF After(t, s.ent[el].ExpiresAt)
         THEN [st |-> removeElement(s, el), val |-> Nil, found |-> FALSE]
         ELSE [st |-> [s EXCEPT !.list = MoveToFront(s.list, el),
                                !.ent[el].ExpiresAt = t + TTL],
               val |-> s.ent[el].Value, found |-> TRUE]
    ELSE [st |-> s, val |-> Nil, found |-> FALSE]

GetOp_noMove(s, key, t) ==
    IF key \in DOMAIN s.cache
    THEN LET el == s.cache[key] IN
         IF After(t, s.ent[el].ExpiresAt)
         THEN [st |-> removeElement(s, el), val |-> Nil, found |-> FALSE]
         ELSE [st |-> s, val |-> s.ent[el].Value, found |-> TRUE]
    ELSE [st |-> s, val |-> Nil, found |-> FALSE]

GetOp_hideExpired(s, key, t) ==
    IF key \in DOMAIN s.cache
    THEN LET el == s.cache[key] IN
         IF After(t, s.ent[el].ExpiresAt)
         THEN [st |-> s, val |-> Nil, found |-> FALSE]
         ELSE [st |-> [s EXCEPT !.list = MoveToFront(s.list, el)],
               val |-> s.ent[el].Value, found |-> TRUE]
    ELSE [st |-> s, val |-> Nil, found |-> FALSE]

\* Get: the state after, the value returned and the found flag.
GetOp(s, key, t) ==
    IF key \in DOMAIN s.cache
    THEN LET el == s.cache[key] IN
         IF After(t, s.ent[el].ExpiresAt)
         THEN [st |-> removeElement(s, el), val |-> Nil, found |-> FALSE]
         ELSE [st |-> [s EXCEPT !.list = MoveToFront(s.list, el)],
               val |-> s.ent[el].Value, found |-> TRUE]
    ELSE [st |-> s, val |-> Nil, found |-> FALSE]

SetOp_lateEvict(s, key, value, t, cap, d) ==
    IF key \in DOMAIN s.cache
    THEN LET el == s.cache[key] IN
         [s EXCEPT !.ent[el].Value = value,
                   !.ent[el].ExpiresAt = t + d,
                   !.list = MoveToFront(s.list, el)]
    ELSE LET s1 == IF Len(s.list) > cap THEN ejectOldest(s) ELSE s
             el == NewElement(s1.list, key)
         IN  [cache |-> [k \in DOMAIN s1.cache \cup {key} |->
                            IF k = key THEN el ELSE s1.cache[k]],
              list  |-> PushFront(s1.list, el),
              ent   |-> [e \in DOMAIN s1.ent \cup {el} |->
                            IF e = el THEN Entry(key, value, t + d) ELSE s1.ent[e]]]

SetOp_keepExpiry(s, key, value, t, cap, d) ==
    IF key \in DOMAIN s.cache
    THEN LET el == s.cache[key] IN
         [s EXCEPT !.ent[el].Value = value,
                   !.list = MoveToFront(s.list, el)]
    ELSE LET s1 == IF Len(s.list) >= cap THEN ejectOldest(s) ELSE s
             el == NewElement(s1.list, key)
         IN  [cache |-> [k \in DOMAIN s1.cache \cup {key} |->
                            IF k = key THEN el ELSE s1.cache[k]],
              list  |-> PushFront(s1.list, el),
              ent   |-> [e \in DOMAIN s1.ent \cup {el} |->
                            IF e = el THEN Entry(key, value, t + d) ELSE s1.ent[e]]]

SetOp_firstWriterWins(s, key, value, t, cap, d) ==
    IF key \in DOMAIN s.cache
    THEN LET el == s.cache[key] IN
         [s EXCEPT !.list = MoveToFront(s.list, el)]
    ELSE LET s1 == IF Len(s.list) >= cap THEN ejectOldest(s) ELSE s
             el == NewElement(s1.list, key)
         IN  [cache |-> [k \in DOMAIN s1.cache \cup {key} |->
                            IF k = key THEN el ELSE s1.cache[k]],
              list  |-> PushFront(s1.list, el),
              ent   |-> [e \in DOMAIN s1.ent \cup {el} |->
                            IF e = el THEN Entry(key, value, t + d) ELSE s1.ent[e]]]

\* Set: the state after.
SetOp(s, key, value, t, cap, d) ==
    IF key \in DOMAIN s.cache
    THEN LET el == s.cache[key] IN
         [s EXCEPT !.ent[el].Value = value,
                   !.ent[el].ExpiresAt = t + d,
                   !.list = MoveToFront(s.list, el)]
    ELSE LET s1 == IF Len(s.list) >= cap THEN ejectOldest(s) ELSE s
             el == NewElement(s1.list, key)
         IN  [cache |-> [k \in DOMAIN s1.cache \cup {key} |->
                            IF k = key THEN el ELSE s1.cache[k]],
              list  |-> PushFront(s1.list, el),
              ent   |-> [e \in DOMAIN s1.ent \cup {el} |->
                            IF e = el THEN Entry(key, value, t + d) ELSE s1.ent[e]]]

DeleteOp_keepInList(s, key) ==
    IF key \in DOMAIN s.cache
    THEN LET el == s.cache[key] IN
         [st |-> [s EXCEPT !.cache = Restrict(s.cache, DOMAIN s.cache \ {key})],
          val |-> s.ent[el].Value, found |-> TRUE]
    ELSE [st |-> s, val |-> Nil, found |-> FALSE]

\* Delete: the state after, the value returned and the found flag.
DeleteOp(s, key) ==
    IF key \in DOMAIN s.cache
    THEN LET el == s.cache[key] IN
         [st |-> removeElement(s, el), val |-> s.ent[el].Value, found |-> TRUE]
    ELSE [st |-> s, val |-> Nil, found |-> FALSE]

LookupOp_noMove(s, key, t) ==
    IF key \in DOMAIN s.cache
    THEN LET el == s.cache[key] IN
         IF After(t, s.ent[el].ExpiresAt)
         THEN [st |-> removeElement(s, el), val |-> Nil, hit |-> FALSE]
         ELSE [st |-> s, val |-> s.ent[el].Value, hit |-> TRUE]
    ELSE [st |-> s, val |-> Nil, hit |-> FALSE]

LookupOp_keepExpired(s, key, t) ==
    IF key \in DOMAIN s.cache
    THEN LET el == s.cache[key] IN
         IF After(t, s.ent[el].ExpiresAt)
         THEN [st |-> s, val |-> Nil, hit |-> FALSE]
         ELSE [st |-> [s EXCEPT !.list = MoveToFront(s.list, el)],
               val |-> s.ent[el].Value, hit |-> TRUE]
    ELSE [st |-> s, val |-> Nil, hit |-> FALSE]

LookupOp_ignoreExpiry(s, key, t) ==
    IF key \in DOMAIN s.cache
    THEN LET el == s.cache[key] IN
         [st |-> [s EXCEPT !.list = MoveToFront(s.list, el)],
          val |-> s.ent[el].Value, hit |-> TRUE]
    ELSE [st |-> s, val |-> Nil, hit |-> FALSE]

\* The first critical section of GetOrLoad / GetOrLoadWithFallback.
LookupOp(s, key, t) ==
    IF key \in DOMAIN s.cache
    THEN LET el == s.cache[key] IN
         IF After(t, s.ent[el].ExpiresAt)
         THEN [st |-> removeElement(s, el), val |-> Nil, hit |-> FALSE]
         ELSE [st |-> [s EXCEPT !.list = MoveToFront(s.list, el)],
               val |-> s.ent[el].Value, hit |-> TRUE]
    ELSE [st |-> s, val |-> Nil, hit |-> FALSE]

\* cleanupExpiredEntries: the scan from the back, element i of the list and
\* then its predecessors.
RECURSIVE ScanFrom(_, _, _)
ScanFrom(s, rest, t) ==
    IF Len(rest) = 0 THEN s
    ELSE LET el   == rest[Len(rest)]
             prev == SubSeq(rest, 1, Len(rest) - 1)
         IN  IF After(t, s.ent[el].ExpiresAt)
             THEN ScanFrom(removeElement(s, el), prev, t)
             ELSE ScanFrom(s, prev, t)

cleanupExpiredEntries_skipFront(s, t) ==
    IF Len(s.list) > 0 THEN ScanFrom(s, Tail(s.list), t) ELSE s

cleanupExpiredEntries_stopAtLive(s, t) ==
    IF Len(s.list) > 0 /\ After(t, s.ent[Back(s.list)].ExpiresAt)
    THEN removeElement(s, Back(s.list))
    ELSE s

cleanupExpiredEntries(s, t) == ScanFrom(s, s.list, t)

\* LoadFromFile after a successful decode: the loop over the entries, each
\* iteration with an entry of its own (the loop variable of Go 1.22 and later).
RECURSIVE LoadEntries(_, _, _)
LoadEntries(s, entries, t) ==
    IF Len(entries) = 0 THEN s
    ELSE LET e  == Head(entries)
             s1 == IF Before(t, e.ExpiresAt)
                   THEN LET el == NewElement(s.list, e.Key) IN
                        [cache |-> [k \in DOMAIN s.cache \cup {e.Key} |->
                                       IF k = e.Key THEN el ELSE s.cache[k]],
                         list  |-> PushFront(s.list, el),
                         ent   |-> [x \in DOMAIN s.ent \cup {el} |->
                                       IF x = el THEN e ELSE s.ent[x]]]
                   ELSE s
         IN  LoadEntries(s1, Tail(entries), t)

\* A CacheEntry as the JSON object {"Key":..,"Value":..,"ExpiresAt":..} and back.
EncodeEntry(e) ==
    [Key |-> e.Key, Value |-> Marshal(e.Value), ExpiresAt |-> FormatTime(e.ExpiresAt)]

DecodeEntry(j) ==
    [Key |-> j.Key, Value |-> Unmarshal(j.Value), ExpiresAt |-> ParseTime(j.ExpiresAt)]

Encode(entries) == [i \in 1..Len(entries) |-> EncodeEntry(entries[i])]

Decode(objects) == [i \in 1..Len(objects) |-> DecodeEntry(objects[i])]

\* The entries SaveToFile collects: the list from front to back.
Entries(s) == [i \in 1..Len(s.list) |-> s.ent[s.list[i]]]

SaveOp_backToFront(s, old, outcome) ==
    CASE outcome = "ok" ->
           [file |-> Snapshot(Encode([i \in 1..Len(s.list) |->
                                         s.ent[s.list[Len(s.list) + 1 - i]]])),
            err |-> FALSE]
      [] outcome = "create" -> [file |-> old, err |-> TRUE]
      [] outcome = "write" -> [file |-> Undecodable, err |-> TRUE]

\* SaveToFile: the file after the call and whether it returned an error.
\* outcome is what the file system does: "ok", "create" (os.Create fails, the
\* file is as it was) or "write" (the file has been created or truncated and
\* the encoder's write fails, leaving no complete JSON value in it).
SaveOp(s, old, outcome) ==
    CASE outcome = "ok" -> [file |-> Snapshot(Encode(Entries(s))), err |-> FALSE]
      [] outcome = "create" -> [file |-> old, err |-> TRUE]
      [] outcome = "write" -> [file |-> Undecodable, err |-> TRUE]

LoadOp_clearFirst(s, content, t) ==
    IF content.kind # "snapshot"
    THEN [st |-> IF content.kind = "undecodable" THEN Empty ELSE s, err |-> TRUE]
    ELSE [st |-> LoadEntries(Empty, Decode(content.entries), t), err |-> FALSE]

LoadOp_merge(s, content, t) ==
    IF content.kind # "snapshot"
    THEN [st |-> s, err |-> TRUE]
    ELSE [st |-> LoadEntries(s, Decode(content.entries), t), err |-> FALSE]

LoadOp_keepOrder(s, content, t) ==
    IF content.kind # "snapshot"
    THEN [st |-> s, err |-> TRUE]
    ELSE LET d == Decode(content.entries) IN
         [st |-> LoadEntries(Empty, [i \in 1..Len(d) |-> d[Len(d) + 1 - i]], t),
          err |-> FALSE]

\* LoadFromFile: the state after the call and whether it returned an error.
LoadOp(s, content, t) ==
    IF content.kind # "snapshot"
    THEN [st |-> s, err |-> TRUE]
    ELSE [st |-> LoadEntries(Empty, Decode(content.entries), t), err |-> FALSE]

\* ------------------------------------------------------------- snapshots
\* Files a caller may hand to LoadFromFile besides the one this cache saved.
Snapshots ==
    { Snapshot(<< >>),
      Snapshot(Encode(<<Entry("A", "v1", 1), Entry("B", "v2", MaxTime)>>)),
      Snapshot(Encode(<<Entry("A", "v1", MaxTime), Entry("A", "v2", MaxTime)>>)) }

FileContents == {file, Undecodable} \cup Snapshots

\* ------------------------------------------------------------- bookkeeping
Idle == [pc |-> "idle", key |-> Nil]

\* No state a call started from is on record.
NoCall == [valid |-> FALSE, st |-> Empty]

\* No call has a result waiting for its caller.
NoOp == [op |-> "none", key |-> Nil, arg |-> Nil, val |-> Nil, ok |-> TRUE,
         calls |-> 0, pre |-> Empty, touched |-> << >>, written |-> {},
         began |-> NoCall, by |-> Nil, at |-> 0]

Ready == last.op = "none"

\* c.mu.Lock() returns at once: no goroutine is inside a critical section.
MuFree == mu = {}

\* cleanupExpiredEntries is not running.
NoScan == [on |-> FALSE, at |-> << >>, removed |-> 0]

\* The record of a completed critical section: the operation ("Get", "Set",
\* "Delete", "Cleanup", "LoadFromFile"; for GetOrLoad and
\* GetOrLoadWithFallback "GetOrLoad" is a return on a hit, "Miss" the lookup
\* that goes on to call the loader, "Loaded" the return after a successful
\* load and "LoadFailed" the return after a failed one), its key and argument,
\* the value and the found / no-error flag returned, the number of loader
\* calls made so far by the call, the state and the touch history before the
\* section, the keys written under a running loader, the state the call
\* started from (for the return after the loader), the caller (of GetOrLoad
\* and GetOrLoadWithFallback), and the time.
Done(op, key, arg, val, ok, calls, pre) ==
    [op |-> op, key |-> key, arg |-> arg, val |-> val, ok |-> ok,
     calls |-> calls, pre |-> pre, touched |-> touched, written |-> written,
     began |-> NoCall, by |-> Nil, at |-> now]

\* The history of touches: key k was read or written (Touch), and the keys
\* that are no longer in the index are forgotten (Stored).
Touch(order, k) == <<k>> \o SelectSeq(order, LAMBDA x : x # k)

Stored(order, c) == SelectSeq(order, LAMBDA x : x \in DOMAIN c)

RECURSIVE TouchAll(_, _, _)
TouchAll(order, entries, t) ==
    IF Len(entries) = 0 THEN order
    ELSE TouchAll(IF Before(t, Head(entries).ExpiresAt)
                  THEN Touch(order, Head(entries).Key) ELSE order,
                  Tail(entries), t)

\* The callers whose loader for key k is running, other than p.
Loading(k, p) ==
    {q \in DOMAIN procs \ {p} : procs[q].pc = "loading" /\ procs[q].key = k}

\* The history of writes under a running loader: the keys in ks were written.
WrittenBy(ks) == written \cup {k \in ks : Loading(k, Nil) # {}}

\* The history of call starts after an operation that leaves state s.
Undisturbed(s) ==
    [q \in DOMAIN began |-> IF s = State THEN began[q] ELSE NoCall]

Install(s) ==
    /\ cache' = s.cache
    /\ list' = s.list
    /\ ent' = s.ent

\* ------------------------------------------------------------- Init
Init ==
    /\ capacity \in 1..MaxCapacity
    /\ ttl = TTL
    /\ mu = {}
    /\ scan = NoScan
    /\ stopCh = "open"
    /\ reaper = "running"
    /\ cache = << >>
    /\ list = << >>
    /\ ent = << >>
    /\ now = 0
    /\ procs = [p \in Procs |-> Idle]
    /\ file = NoFile
    /\ saved = << >>
    /\ touched = << >>
    /\ began = [p \in Procs |-> NoCall]
    /\ written = {}
    /\ last = NoOp

\* The same cache with two callers of GetOrLoad.
InitLoad ==
    /\ capacity \in 1..MaxCapacity
    /\ ttl = TTL
    /\ mu = {}
    /\ scan = NoScan
    /\ stopCh = "open"
    /\ reaper = "running"
    /\ cache = << >>
    /\ list = << >>
    /\ ent = << >>
    /\ now = 0
    /\ procs = [p \in Callers |-> Idle]
    /\ file = NoFile
    /\ saved = << >>
    /\ touched = << >>
    /\ began = [p \in Callers |-> NoCall]
    /\ written = {}
    /\ last = NoOp

\* ------------------------------------------------------------- actions
Tick ==
    /\ Ready
    /\ now < MaxTime
    /\ now' = now + 1
    /\ UNCHANGED <<capacity, ttl, mu, scan, stopCh, reaper, cache, list, ent, procs, file, saved, touched, began, written, last>>

Get(key) ==
    LET r == GetOp(State, key, now) IN
    /\ Ready
    /\ MuFree
    /\ Install(r.st)
    /\ last' = Done("Get", key, Nil, r.val, r.found, 0, State)
    /\ touched' = Stored(IF r.found THEN Touch(touched, key) ELSE touched, r.st.cache)
    /\ began' = Undisturbed(r.st)
    /\ UNCHANGED <<capacity, ttl, mu, scan, stopCh, reaper, now, procs, file, saved, written>>

Set(key, value) ==
    /\ Ready
    /\ MuFree
    /\ Install(SetOp(State, key, value, now, capacity, ttl))
    /\ last' = Done("Set", key, value, Nil, TRUE, 0, State)
    /\ touched' = Stored(Touch(touched, key), cache')
    /\ began' = Undisturbed(State')
    /\ written' = WrittenBy({key})
    /\ UNCHANGED <<capacity, ttl, mu, scan, stopCh, reaper, now, procs, file, saved>>

Delete(key) ==
    LET r == DeleteOp(State, key) IN
    /\ Ready
    /\ MuFree
    /\ Install(r.st)
    /\ last' = Done("Delete", key, Nil, r.val, r.found, 0, State)
    /\ touched' = Stored(touched, r.st.cache)
    /\ began' = Undisturbed(r.st)
    /\ UNCHANGED <<capacity, ttl, mu, scan, stopCh, reaper, now, procs, file, saved, written>>

GetOrLoadLookup_coalesce(p, key) ==
    /\ Ready
    /\ MuFree
    /\ procs[p].pc = "idle"
    /\ LET r == LookupOp(State, key, now)
           join == ~r.hit /\ Loading(key, p) # {}
       IN
       /\ Install(r.st)
       /\ touched' = Stored(IF r.hit THEN Touch(touched, key) ELSE touched, r.st.cache)
       /\ IF r.hit
          THEN /\ procs' = procs
               /\ last' = [Done("GetOrLoad", key, Nil, r.val, TRUE, 0, State)
                              EXCEPT !.by = p]
          ELSE /\ procs' = IF join THEN procs
                           ELSE [procs EXCEPT ![p] = [pc |-> "loading", key |-> key]]
               /\ last' = [Done("Miss", key, Nil, Nil, FALSE, IF join THEN 0 ELSE 1, State)
                              EXCEPT !.by = p]
       /\ written' = IF r.hit THEN written ELSE written \ {key}
       /\ began' = IF r.hit \/ join THEN Undisturbed(r.st)
                   ELSE [Undisturbed(r.st) EXCEPT
                            ![p] = [valid |-> TRUE, st |-> State]]
    /\ UNCHANGED <<capacity, ttl, mu, scan, stopCh, reaper, now, file, saved>>

GetOrLoadLookup_holdsLock(p, key) ==
    /\ Ready
    /\ MuFree
    /\ procs[p].pc = "idle"
    /\ LET r == LookupOp(State, key, now) IN
       /\ Install(r.st)
       /\ touched' = Stored(IF r.hit THEN Touch(touched, key) ELSE touched, r.st.cache)
       /\ IF r.hit
          THEN /\ procs' = procs
               /\ mu' = mu
               /\ last' = [Done("GetOrLoad", key, Nil, r.val, TRUE, 0, State)
                              EXCEPT !.by = p]
          ELSE /\ procs' = [procs EXCEPT ![p] = [pc |-> "loading", key |-> key]]
               /\ mu' = mu \cup {p}
               /\ last' = [Done("Miss", key, Nil, Nil, FALSE, 1, State)
                              EXCEPT !.by = p]
       /\ written' = IF r.hit THEN written ELSE written \ {key}
       /\ began' = IF r.hit THEN Undisturbed(r.st)
                   ELSE [Undisturbed(r.st) EXCEPT
                            ![p] = [valid |-> TRUE, st |-> State]]
    /\ UNCHANGED <<capacity, ttl, scan, stopCh, reaper, now, file, saved>>

\* GetOrLoad and GetOrLoadWithFallback are the same code up to the return on
\* a loader error, so one caller state serves both: the first critical
\* section, up to the call of the loader.
GetOrLoadLookup(p, key) ==
    /\ Ready
    /\ MuFree
    /\ procs[p].pc = "idle"
    /\ LET r == LookupOp(State, key, now) IN
       /\ Install(r.st)
       /\ touched' = Stored(IF r.hit THEN Touch(touched, key) ELSE touched, r.st.cache)
       /\ IF r.hit
          THEN /\ procs' = procs
               /\ last' = [Done("GetOrLoad", key, Nil, r.val, TRUE, 0, State)
                              EXCEPT !.by = p]
          ELSE /\ procs' = [procs EXCEPT ![p] = [pc |-> "loading", key |-> key]]
               /\ last' = [Done("Miss", key, Nil, Nil, FALSE, 1, State)
                              EXCEPT !.by = p]
       /\ written' = IF r.hit THEN written ELSE written \ {key}
       /\ began' = IF r.hit THEN Undisturbed(r.st)
                   ELSE [Undisturbed(r.st) EXCEPT
                            ![p] = [valid |-> TRUE, st |-> State]]
    /\ UNCHANGED <<capacity, ttl, mu, scan, stopCh, reaper, now, file, saved>>

\* The loader returned (value, nil): c.Set(key, val); return val, nil.
LoaderSucceeds(p, value) ==
    /\ Ready
    /\ MuFree
    /\ procs[p].pc = "loading"
    /\ Install(SetOp(State, procs[p].key, value, now, capacity, ttl))
    /\ last' = [Done("Loaded", procs[p].key, value, value, TRUE, 1, State)
                   EXCEPT !.began = began[p], !.by = p]
    /\ touched' = Stored(Touch(touched, procs[p].key), cache')
    /\ began' = [Undisturbed(State') EXCEPT ![p] = NoCall]
    /\ written' = IF Loading(procs[p].key, p) # {}
                  THEN written \cup {procs[p].key}
                  ELSE written \ {procs[p].key}
    /\ procs' = [procs EXCEPT ![p] = Idle]
    /\ UNCHANGED <<capacity, ttl, mu, scan, stopCh, reaper, now, file, saved>>

LoaderFails_dropsFallback(p, fallback) ==
    /\ Ready
    /\ procs[p].pc = "loading"
    /\ last' = [Done("LoadFailed", procs[p].key, fallback, Nil, FALSE, 1, State)
                   EXCEPT !.began = began[p], !.by = p]
    /\ began' = [began EXCEPT ![p] = NoCall]
    /\ written' = IF Loading(procs[p].key, p) # {}
                  THEN written
                  ELSE written \ {procs[p].key}
    /\ procs' = [procs EXCEPT ![p] = Idle]
    /\ UNCHANGED <<capacity, ttl, mu, scan, stopCh, reaper, cache, list, ent, now, file, saved, touched>>

LoaderFails_storesResult(p, fallback) ==
    /\ Ready
    /\ procs[p].pc = "loading"
    /\ Install(SetOp(State, procs[p].key, fallback, now, capacity, ttl))
    /\ last' = [Done("LoadFailed", procs[p].key, fallback, fallback, FALSE, 1, State)
                   EXCEPT !.began = began[p], !.by = p]
    /\ touched' = Stored(Touch(touched, procs[p].key), cache')
    /\ began' = [began EXCEPT ![p] = NoCall]
    /\ written' = IF Loading(procs[p].key, p) # {}
                  THEN written
                  ELSE written \ {procs[p].key}
    /\ procs' = [procs EXCEPT ![p] = Idle]
    /\ UNCHANGED <<capacity, ttl, mu, scan, stopCh, reaper, now, file, saved>>

\* The loader returned an error: GetOrLoad returns nil, err (fallback = Nil),
\* GetOrLoadWithFallback returns fallback, err.
LoaderFails(p, fallback) ==
    /\ Ready
    /\ procs[p].pc = "loading"
    /\ last' = [Done("LoadFailed", procs[p].key, fallback, fallback, FALSE, 1, State)
                   EXCEPT !.began = began[p], !.by = p]
    /\ began' = [began EXCEPT ![p] = NoCall]
    /\ written' = IF Loading(procs[p].key, p) # {}
                  THEN written
                  ELSE written \ {procs[p].key}
    /\ procs' = [procs EXCEPT ![p] = Idle]
    /\ UNCHANGED <<capacity, ttl, mu, scan, stopCh, reaper, cache, list, ent, now, file, saved, touched>>

Cleanup_afterExit ==
    /\ Ready
    /\ MuFree
    /\ Install(cleanupExpiredEntries(State, now))
    /\ last' = Done("Cleanup", Nil, Nil, Nil, TRUE, 0, State)
    /\ touched' = Stored(touched, cache')
    /\ began' = Undisturbed(State')
    /\ UNCHANGED <<capacity, ttl, mu, scan, stopCh, reaper, now, procs, file, saved, written>>

\* One tick of the cleanup ticker: the goroutine takes the case <-ticker.C of
\* its select and runs cleanupExpiredEntries.
Cleanup ==
    /\ Ready
    /\ MuFree
    /\ reaper = "running"
    /\ ~scan.on
    /\ Install(cleanupExpiredEntries(State, now))
    /\ last' = Done("Cleanup", Nil, Nil, Nil, TRUE, 0, State)
    /\ touched' = Stored(touched, cache')
    /\ began' = Undisturbed(State')
    /\ UNCHANGED <<capacity, ttl, mu, scan, stopCh, reaper, now, procs, file, saved, written>>

LoadFromFile(content) ==
    LET r == LoadOp(State, content, now) IN
    /\ Ready
    /\ MuFree
    /\ Install(r.st)
    /\ last' = Done("LoadFromFile", Nil, content, Nil, ~r.err, 0, State)
    /\ touched' = IF r.err THEN touched
                  ELSE Stored(TouchAll(<< >>, Decode(content.entries), now), r.st.cache)
    /\ written' = IF r.err THEN written ELSE WrittenBy(DOMAIN r.st.cache)
    /\ began' = Undisturbed(r.st)
    /\ UNCHANGED <<capacity, ttl, mu, scan, stopCh, reaper, now, procs, file, saved>>

\* SaveToFile to the cache's own file; outcome is what the file system does.
SaveToFile(outcome) ==
    LET r == SaveOp(State, file, outcome) IN
    /\ Ready
    /\ MuFree
    /\ file' = r.file
    /\ saved' = IF r.err THEN saved ELSE Entries(State)
    /\ last' = Done("SaveToFile", Nil, outcome, Nil, ~r.err, 0, State)
    /\ UNCHANGED <<capacity, ttl, mu, scan, stopCh, reaper, cache, list, ent, now, procs,
                   touched, began, written>>

\* One iteration of the loop of cleanupExpiredEntries at element el.  Prev()
\* is read before the removal.  The loop runs under the lock, so el is in the
\* list; were it not, Prev() would be nil, list.Remove would do nothing, and
\* delete(c.cache, entry.Key) would run if the entry, which the state no
\* longer holds, tested as expired (drop says whether it did).
VisitOp(s, el, t, drop) ==
    IF el \in Range(s.list)
    THEN LET i == CHOOSE j \in 1..Len(s.list) : s.list[j] = el IN
         [st   |-> IF After(t, s.ent[el].ExpiresAt) THEN removeElement(s, el) ELSE s,
          prev |-> IF i > 1 THEN <<s.list[i - 1]>> ELSE << >>,
          removed |-> After(t, s.ent[el].ExpiresAt)]
    ELSE [st   |-> IF drop
                   THEN [s EXCEPT !.cache = Restrict(s.cache, DOMAIN s.cache \ {el[1]})]
                   ELSE s,
          prev |-> << >>,
          removed |-> FALSE]

ScanBegin_noLock ==
    /\ Ready
    /\ reaper = "running"
    /\ ~scan.on
    /\ scan' = [on |-> TRUE,
                at |-> IF Len(list) > 0 THEN <<Back(list)>> ELSE << >>,
                removed |-> 0]
    /\ UNCHANGED <<capacity, ttl, mu, stopCh, reaper, cache, list, ent, now, procs, file,
                   saved, touched, began, written, last>>

\* cleanupExpiredEntries step by step: c.mu.Lock() and element := c.list.Back().
ScanBegin ==
    /\ Ready
    /\ reaper = "running"
    /\ ~scan.on
    /\ MuFree
    /\ mu' = {"reaper"}
    /\ scan' = [on |-> TRUE,
                at |-> IF Len(list) > 0 THEN <<Back(list)>> ELSE << >>,
                removed |-> 0]
    /\ UNCHANGED <<capacity, ttl, stopCh, reaper, cache, list, ent, now, procs, file,
                   saved, touched, began, written, last>>

\* The body of the loop for one element.
ScanVisit(drop) ==
    /\ Ready
    /\ scan.on
    /\ scan.at # << >>
    /\ LET r == VisitOp(State, scan.at[1], now, drop) IN
       /\ Install(r.st)
       /\ scan' = [on |-> TRUE, at |-> r.prev,
                   removed |-> scan.removed + (IF r.removed THEN 1 ELSE 0)]
       /\ touched' = Stored(touched, r.st.cache)
       /\ began' = Undisturbed(r.st)
    /\ UNCHANGED <<capacity, ttl, mu, stopCh, reaper, now, procs, file, saved, written,
                   last>>

\* element == nil: the loop ends and the deferred c.mu.Unlock() runs.
ScanEnd ==
    /\ Ready
    /\ scan.on
    /\ scan.at = << >>
    /\ mu' = mu \ {"reaper"}
    /\ scan' = NoScan
    /\ UNCHANGED <<capacity, ttl, stopCh, reaper, cache, list, ent, now, procs, file,
                   saved, touched, began, written, last>>

StopCleanup_idempotent ==
    /\ Ready
    /\ stopCh' = "closed"
    /\ last' = Done("StopCleanup", Nil, Nil, Nil, TRUE, 0, State)
    /\ UNCHANGED <<capacity, ttl, mu, scan, reaper, cache, list, ent, now, procs, file, saved,
                   touched, began, written>>

\* StopCleanup: close(c.stopCh).  Closing a closed channel panics; nothing
\* recovers the panic, so the process ends there and no operation follows.
StopCleanup ==
    /\ Ready
    /\ IF stopCh = "open"
       THEN /\ stopCh' = "closed"
            /\ last' = Done("StopCleanup", Nil, Nil, Nil, TRUE, 0, State)
       ELSE /\ stopCh' = stopCh
            /\ last' = Done("panic", Nil, "close of closed channel", Nil, FALSE, 0, State)
    /\ UNCHANGED <<capacity, ttl, mu, scan, reaper, cache, list, ent, now, procs, file, saved,
                   touched, began, written>>

\* The goroutine, at its select between two scans, takes the case <-c.stopCh
\* (ready once the channel is closed) and returns.
ReaperExit ==
    /\ Ready
    /\ reaper = "running"
    /\ ~scan.on
    /\ stopCh = "closed"
    /\ reaper' = "exited"
    /\ UNCHANGED <<capacity, ttl, mu, scan, stopCh, cache, list, ent, now, procs, file, saved,
                   touched, began, written, last>>

\* The caller of the last operation takes its result.
Return ==
    /\ ~Ready
    /\ last.op # "panic"
    /\ last' = NoOp
    /\ UNCHANGED <<capacity, ttl, mu, scan, stopCh, reaper, cache, list, ent, now, procs, file, saved, touched, began, written>>

Next ==
    \/ Tick
    \/ Return
    \/ \E k \in Keys : Get(k)
    \/ \E k \in Keys, v \in Values : Set(k, v)
    \/ \E k \in Keys : Delete(k)
    \/ \E p \in DOMAIN procs, k \in Keys : GetOrLoadLookup(p, k)
    \/ \E p \in DOMAIN procs, v \in Values : LoaderSucceeds(p, v)
    \/ \E p \in DOMAIN procs, fb \in {Nil} \cup Fallbacks : LoaderFails(p, fb)
    \/ Cleanup

\* The operations of the cache without the snapshot persistence.
Spec == Init /\ [][Next]_vars

\* The same with LoadFromFile of the files in FileContents.
NextPersist ==
    \/ Next
    \/ \E c \in FileContents : LoadFromFile(c)

SpecPersist == Init /\ [][NextPersist]_vars

\* Writing, reading, saving to the cache's own file and loading it back.
NextSave ==
    \/ Tick
    \/ Return
    \/ \E k \in SaveKeys : Get(k)
    \/ \E k \in SaveKeys, v \in Values : Set(k, v)
    \/ \E o \in {"ok", "create", "write"} : SaveToFile(o)
    \/ LoadFromFile(file)

SpecSave == Init /\ [][NextSave]_vars

\* Writing, reading and the life of the cleanup goroutine.
NextStop ==
    \/ Tick
    \/ Return
    \/ \E k \in Keys : Get(k)
    \/ \E k \in Keys, v \in Values : Set(k, v)
    \/ Cleanup
    \/ StopCleanup
    \/ ReaperExit

SpecStop == Init /\ [][NextStop]_vars

\* Two callers of GetOrLoad and GetOrLoadWithFallback whose calls overlap
\* with each other, with Get and Set and with the cleanup.
NextLoad ==
    \/ Tick
    \/ Return
    \/ \E k \in LoadKeys : Get(k)
    \/ \E k \in LoadKeys, v \in Values : Set(k, v)
    \/ \E p \in DOMAIN procs, k \in LoadKeys : GetOrLoadLookup(p, k)
    \/ \E p \in DOMAIN procs, v \in Values : LoaderSucceeds(p, v)
    \/ \E p \in DOMAIN procs, fb \in {Nil} \cup Fallbacks : LoaderFails(p, fb)
    \/ Cleanup

SpecLoad == InitLoad /\ [][NextLoad]_vars

\* Writing and reading while the cleanup runs its scan step by step.
NextLock ==
    \/ Tick
    \/ Return
    \/ \E k \in Keys : Get(k)
    \/ \E k \in Keys, v \in Values : Set(k, v)
    \/ ScanBegin
    \/ \E drop \in BOOLEAN : ScanVisit(drop)
    \/ ScanEnd

SpecLock == Init /\ [][NextLock]_vars

\* The same under the scheduling of the Go runtime: a caller that has its
\* result goes on (Return), and the goroutine's select, which chooses at
\* random among its ready cases, does not pass over the ready case <-c.stopCh
\* for ever (ReaperExit).
SpecStopFair == SpecStop /\ WF_vars(Return) /\ SF_vars(ReaperExit)

\* SpecStop while the ticks keep occurring: a caller that has its result goes
\* on (Return), and the goroutine, whose ticker fires every interval as long
\* as it runs and whose c.mu.Lock() is served in the end (sync.Mutex hands
\* the lock to a waiter that has starved), does not fail for ever to run a
\* scan (Cleanup).
SpecReapFair == SpecStop /\ WF_vars(Return) /\ SF_vars(Cleanup)

\* ------------------------------------------------------------- properties
\* The state before the operation recorded in last, and what it held for a key.
Pre == last.pre

Present(k) == k \in DOMAIN Pre.cache

PreEl(k) == Pre.cache[k]

PreEntry(k) == Pre.ent[Pre.cache[k]]

\* c.Set ran: called directly or by GetOrLoad after a successful load.
Wrote == last.op \in {"Set", "Loaded"}

Without(l, el) == SelectSeq(l, LAMBDA x : x # el)

\* C1: with capacity >= 1, after every operation of Set, Get, Delete,
\* GetOrLoad, GetOrLoadWithFallback and the cleanup, in any interleaving and
\* without LoadFromFile, the number of stored entries (in the list and in the
\* index) is at most the capacity.
C1_Capacity ==
    capacity >= 1 =>
        /\ Len(list) <= capacity
        /\ Cardinality(DOMAIN cache) <= capacity

\* C1 witness: a new key was written into a cache that held capacity entries,
\* and the cache holds capacity entries afterwards.
C1_WroteAtCapacity ==
    /\ Wrote
    /\ ~Present(last.key)
    /\ capacity = MaxCapacity
    /\ Len(Pre.list) = capacity
    /\ Len(list) = capacity

\* C2: after every operation, LoadFromFile of any decodable snapshot included,
\* index and list are in bijection: every key of the index maps to one element
\* of the list whose entry carries that key, every element of the list is the
\* one the index holds for its key, and the two have the same size.
C2_Bijection ==
    /\ \A k \in DOMAIN cache :
          /\ Cardinality({i \in 1..Len(list) : list[i] = cache[k]}) = 1
          /\ ent[cache[k]].Key = k
    /\ \A i \in 1..Len(list) :
          /\ ent[list[i]].Key \in DOMAIN cache
          /\ cache[ent[list[i]].Key] = list[i]
    /\ Cardinality(DOMAIN cache) = Len(list)

\* C3: when Set writes a key that is not stored into a cache holding capacity
\* entries, exactly one entry goes: the back-most one, whose key is the least
\* recently touched stored key, whatever the expiry of any entry; the others
\* stay as they were, behind the new entry.
C3_EvictsLeastRecentlyTouched ==
    (Wrote /\ ~Present(last.key) /\ Len(Pre.list) = capacity) =>
        LET victim == Pre.list[Len(Pre.list)]
            vkey   == Pre.ent[victim].Key
            kept   == SubSeq(Pre.list, 1, Len(Pre.list) - 1)
        IN  /\ vkey = last.touched[Len(last.touched)]
            /\ DOMAIN cache = (DOMAIN Pre.cache \ {vkey}) \cup {last.key}
            /\ Len(list) = Len(Pre.list)
            /\ list[1] = cache[last.key]
            /\ SubSeq(list, 2, Len(list)) = kept
            /\ \A i \in 1..Len(kept) :
                  /\ ent[kept[i]] = Pre.ent[kept[i]]
                  /\ cache[Pre.ent[kept[i]].Key] = kept[i]

\* C3 witness: the evicted entry was unexpired while an entry that stays in
\* the cache was already expired.
C3_EvictedUnexpiredKeptExpired ==
    /\ last.op = "Set"
    /\ ~Present(last.key)
    /\ Len(Pre.list) = capacity
    /\ ~After(last.at, Pre.ent[Pre.list[Len(Pre.list)]].ExpiresAt)
    /\ Pre.list[Len(Pre.list)] \notin Range(list)
    /\ \E e \in Range(list) :
          /\ e \in Range(Pre.list)
          /\ After(last.at, Pre.ent[e].ExpiresAt)

\* C4: Get, GetOrLoad and GetOrLoadWithFallback never return the stored value
\* of an entry as a hit when the time is at or past its expiresAt.
C4_NoHitAtOrPastExpiry ==
    (last.op \in {"Get", "GetOrLoad"} /\ last.ok /\ Present(last.key)) =>
        last.at < PreEntry(last.key).ExpiresAt

\* C5: Get on a key whose entry is present and expired (the clock is past its
\* expiresAt) reports not-found and removes that entry from the index and the
\* list; every other entry, its place in the index and the order stay.
C5_GetRemovesExpired ==
    (/\ last.op = "Get"
     /\ Present(last.key)
     /\ After(last.at, PreEntry(last.key).ExpiresAt)) =>
        /\ ~last.ok
        /\ last.val = Nil
        /\ last.key \notin DOMAIN cache
        /\ PreEl(last.key) \notin Range(list)
        /\ DOMAIN cache = DOMAIN Pre.cache \ {last.key}
        /\ \A k \in DOMAIN cache :
              /\ cache[k] = Pre.cache[k]
              /\ ent[cache[k]] = PreEntry(k)
        /\ list = Without(Pre.list, PreEl(last.key))

\* C5 witness: Get found an expired entry that was neither alone nor at the
\* back of the list.
C5_ExpiredInFront ==
    /\ last.op = "Get"
    /\ Present(last.key)
    /\ After(last.at, PreEntry(last.key).ExpiresAt)
    /\ Len(Pre.list) >= 2
    /\ Pre.list[1] = PreEl(last.key)
    /\ Len(list) = Len(Pre.list) - 1

\* C6: Set on a stored key, live or expired, replaces the value, sets
\* expiresAt to now + ttl, moves the entry to the front and evicts nothing
\* (same keys, same count, also at capacity); and a Get of a stored key before
\* its expiresAt finds the value stored.
C6_OverwriteRefreshes ==
    /\ (last.op = "Set" /\ Present(last.key)) =>
          LET el == PreEl(last.key) IN
          /\ cache = Pre.cache
          /\ DOMAIN ent = DOMAIN Pre.ent
          /\ ent[el] = Entry(last.key, last.arg, last.at + ttl)
          /\ \A e \in DOMAIN Pre.ent \ {el} : ent[e] = Pre.ent[e]
          /\ list = <<el>> \o Without(Pre.list, el)
          /\ Len(list) = Len(Pre.list)
    /\ (/\ last.op = "Get"
        /\ Present(last.key)
        /\ last.at < PreEntry(last.key).ExpiresAt) =>
          /\ last.ok
          /\ last.val = PreEntry(last.key).Value

\* C6 witness: Set overwrote an expired entry, with another value, at the back
\* of a cache at capacity.
C6_OverwroteExpiredAtCapacity ==
    /\ last.op = "Set"
    /\ Present(last.key)
    /\ After(last.at, PreEntry(last.key).ExpiresAt)
    /\ last.arg # PreEntry(last.key).Value
    /\ capacity = MaxCapacity
    /\ Len(Pre.list) = capacity
    /\ Pre.list[Len(Pre.list)] = PreEl(last.key)

C8_DeleteExpiredNotFound ==
    (/\ last.op = "Delete"
     /\ Present(last.key)
     /\ After(last.at, PreEntry(last.key).ExpiresAt)) =>
        /\ ~last.ok
        /\ last.val = Nil

\* C9: GetOrLoad on a key with a live entry returns the stored value with a
\* nil error, moves the entry to the front and does not call the loader; the
\* index, the values and every expiresAt are unchanged.
C9_HitNoLoad ==
    (/\ last.op \in {"GetOrLoad", "Miss"}
     /\ Present(last.key)
     /\ last.at < PreEntry(last.key).ExpiresAt) =>
        /\ last.op = "GetOrLoad"
        /\ last.ok
        /\ last.calls = 0
        /\ last.val = PreEntry(last.key).Value
        /\ cache = Pre.cache
        /\ ent = Pre.ent
        /\ list = <<PreEl(last.key)>> \o Without(Pre.list, PreEl(last.key))

\* C9 witness: GetOrLoad hit a live entry that was at the back of the list.
C9_HitAtBack ==
    /\ last.op = "GetOrLoad"
    /\ Present(last.key)
    /\ last.at < PreEntry(last.key).ExpiresAt
    /\ Len(Pre.list) = 2
    /\ Pre.list[2] = PreEl(last.key)

\* C10: GetOrLoad on a missing or expired key calls the loader, once; when the
\* loader succeeds the value is stored under the key with expiresAt = now +
\* ttl at the time of the store, at the front, and returned with a nil error;
\* and a Get of a stored, unexpired key returns the value stored.
C10_LoadStores ==
    /\ (/\ last.op \in {"GetOrLoad", "Miss"}
        /\ (Present(last.key) => After(last.at, PreEntry(last.key).ExpiresAt))) =>
          /\ last.op = "Miss"
          /\ last.calls = 1
          /\ \E p \in DOMAIN procs : procs[p] = [pc |-> "loading", key |-> last.key]
    /\ (last.op = "Loaded") =>
          /\ last.ok
          /\ last.calls = 1
          /\ last.val = last.arg
          /\ last.key \in DOMAIN cache
          /\ ent[cache[last.key]] = Entry(last.key, last.val, last.at + ttl)
          /\ list[1] = cache[last.key]
    /\ (/\ last.op = "Get"
        /\ Present(last.key)
        /\ ~After(last.at, PreEntry(last.key).ExpiresAt)) =>
          /\ last.ok
          /\ last.val = PreEntry(last.key).Value

\* C10 witness: the load of a key that was still missing at the store was
\* stored, after the clock had moved, in a cache at capacity.
C10_LoadedIntoFullCache ==
    /\ last.op = "Loaded"
    /\ ~Present(last.key)
    /\ last.at > 0
    /\ Len(Pre.list) = capacity
    /\ last.key \in DOMAIN cache

\* C11: when the loader of GetOrLoad returns an error, the call returns nil
\* and the error and stores nothing: the return leaves the state as it found
\* it, the key, which the lookup left absent, is absent when the call returns
\* unless another caller has written it in the meantime, and a GetOrLoad of an
\* absent key calls its loader (the failure is not cached).
C11_LoaderErrorNotCached ==
    /\ (last.op = "Miss") => last.key \notin DOMAIN cache
    /\ (last.op = "LoadFailed") =>
          /\ ~last.ok
          /\ State = Pre
          /\ (last.arg = Nil) => (last.val = Nil)
          /\ (last.key \notin last.written) => (last.key \notin DOMAIN cache)
    /\ (last.op \in {"GetOrLoad", "Miss"} /\ ~Present(last.key)) =>
          /\ last.op = "Miss"
          /\ last.calls = 1

\* C11 witness: the loader of a GetOrLoad failed while other keys were stored
\* and nobody else had written the key.
C11_LoaderFailed ==
    /\ last.op = "LoadFailed"
    /\ last.arg = Nil
    /\ last.key \notin last.written
    /\ Len(list) >= 1
    /\ last.at > 0

\* The state the call recorded in last started from, when no other operation
\* has changed the state during the call.
Began == last.began.st

\* C12 as stated: a GetOrLoad or GetOrLoadWithFallback call whose loader
\* fails, with no other operation changing the state during the call, leaves
\* the state (index, list, entries: keys, values, expiresAt, order) exactly as
\* it was when the call started, also when the key had an expired entry then.
C12_FailedLoadLeavesState ==
    (last.op = "LoadFailed" /\ last.began.valid) => (State = Began)

\* C12, amended: such a call leaves the state as it was when the call
\* started, except that an entry of the key that was stored then (it was
\* expired: the clock was past its ExpiresAt) has been removed from the index
\* and the list; all other entries and their order are as before.
C12_FailedLoadRemovesExpired ==
    (last.op = "LoadFailed" /\ last.began.valid) =>
        IF last.key \in DOMAIN Began.cache
        THEN /\ After(last.at, Began.ent[Began.cache[last.key]].ExpiresAt)
             /\ State = removeElement(Began, Began.cache[last.key])
        ELSE State = Began

\* C12 witness: the loader of GetOrLoadWithFallback failed for a key that had
\* an expired entry, in front of another entry, when the call started.
C12_FailedOnExpiredEntry ==
    /\ last.op = "LoadFailed"
    /\ last.arg \in Fallbacks
    /\ last.began.valid
    /\ Len(Began.list) = 2
    /\ last.key \in DOMAIN Began.cache
    /\ Began.list[1] = Began.cache[last.key]

\* C13: when its loader fails, GetOrLoadWithFallback returns the caller's
\* fallback and the error and stores nothing: no entry holds the fallback, and
\* a Get of the key that follows is not found (unless another caller wrote the
\* key meanwhile).  On a hit it returns the stored value, after a successful
\* load the loaded value, which it has stored: never the fallback.
C13_FallbackNotStored ==
    /\ (last.op = "LoadFailed" /\ last.arg \in Fallbacks) =>
          /\ last.val = last.arg
          /\ ~last.ok
          /\ State = Pre
          /\ \A el \in DOMAIN ent : ent[el].Value \notin Fallbacks
          /\ (last.key \notin last.written) => ~GetOp(State, last.key, now).found
    /\ (last.op = "GetOrLoad") =>
          /\ last.ok
          /\ last.val = PreEntry(last.key).Value
          /\ last.val \notin Fallbacks
    /\ (last.op = "Loaded") =>
          /\ last.ok
          /\ last.val = last.arg
          /\ last.val \notin Fallbacks
          /\ ent[cache[last.key]].Value = last.val

\* C13 witness: the loader of GetOrLoadWithFallback failed for a key nobody
\* else had written, with the cache at capacity.
C13_FallbackReturned ==
    /\ last.op = "LoadFailed"
    /\ last.val \in Fallbacks
    /\ last.key \notin last.written
    /\ Len(list) = capacity

\* C14: after a cache has saved its entries (distinct keys) to its file and
\* the file has been loaded, which replaces the whole content as a load into a
\* fresh cache does, every saved entry that is unexpired at the load is found
\* by Get with the value that was stored under its key, and every saved entry
\* whose ExpiresAt has been reached is absent.
C14_RoundTrip ==
    (last.op = "LoadFromFile" /\ last.ok /\ last.arg = Snapshot(Encode(saved))) =>
        \A i \in 1..Len(saved) :
            IF Before(last.at, saved[i].ExpiresAt)
            THEN /\ GetOp(State, saved[i].Key, now).found
                 /\ GetOp(State, saved[i].Key, now).val = saved[i].Value
            ELSE saved[i].Key \notin DOMAIN cache

\* The tuples of a decoded snapshot whose ExpiresAt is in the future at time t.
Live(content, t) ==
    SelectSeq(Decode(content.entries), LAMBDA e : Before(t, e.ExpiresAt))

\* C15: a successful LoadFromFile replaces the content: afterwards the list
\* holds exactly the snapshot's tuples whose ExpiresAt is in the future at the
\* load, one element for each, the index holds exactly their keys, each mapped
\* to an element carrying such a tuple of that key, and a key stored before
\* the load is stored after it only if the snapshot has a live tuple for it.
C15_LoadReplaces ==
    (last.op = "LoadFromFile" /\ last.ok) =>
        LET live == Live(last.arg, last.at) IN
        /\ Len(list) = Len(live)
        /\ {ent[el] : el \in Range(list)} = Range(live)
        /\ DOMAIN cache = {live[i].Key : i \in 1..Len(live)}
        /\ \A k \in DOMAIN cache :
              /\ cache[k] \in Range(list)
              /\ ent[cache[k]] \in Range(live)
              /\ ent[cache[k]].Key = k
        /\ \A k \in DOMAIN Pre.cache :
              (k \in DOMAIN cache) => (\E i \in 1..Len(live) : live[i].Key = k)

\* C15 witness: a snapshot with a tuple of A that has expired and a live
\* tuple of B was loaded into a cache that held unexpired entries of A and C:
\* only B is stored afterwards.
C15_LoadDroppedStoredKeys ==
    /\ last.op = "LoadFromFile"
    /\ last.ok
    /\ DOMAIN Pre.cache = {"A", "C"}
    /\ \A k \in DOMAIN Pre.cache : Before(last.at, PreEntry(k).ExpiresAt)
    /\ Len(last.arg.entries) = 2
    /\ DOMAIN cache = {"B"}

\* C16: a LoadFromFile of a file that cannot be opened or decoded returns the
\* error and leaves the index, the list and the entries as they were; a
\* SaveToFile that cannot create or write the file returns the error, and no
\* SaveToFile, failed or not, changes the index, the list or the entries.
C16_FailedPersistenceKeepsState ==
    /\ (last.op = "LoadFromFile" /\ last.arg.kind # "snapshot") => ~last.ok
    /\ (last.op = "LoadFromFile" /\ ~last.ok) =>
          /\ State = Pre
          /\ touched = last.touched
    /\ (last.op = "SaveToFile" /\ last.arg # "ok") => ~last.ok
    /\ (last.op = "SaveToFile") => (State = Pre)

\* C16 witness: a SaveToFile failed while writing, and the LoadFromFile of
\* what it left failed to decode, in a cache that holds entries.
C16_LoadOfBrokenFileFailed ==
    /\ last.op = "LoadFromFile"
    /\ ~last.ok
    /\ last.arg.kind = "undecodable"
    /\ Len(list) = 2

\* The elements of the state before the operation that it found expired.
PreExpired == {el \in Range(Pre.list) : After(last.at, Pre.ent[el].ExpiresAt)}

\* C17: when a scan of the cleanup completes, every element whose entry was
\* expired (the clock past its ExpiresAt) has been removed from the list and
\* its key from the index, wherever it stood in the list, every other
\* element is still there with its entry, and these are in the order they
\* had.
C17_ScanRemovesExactlyExpired ==
    (last.op = "Cleanup") =>
        /\ list = SelectSeq(Pre.list, LAMBDA el : el \notin PreExpired)
        /\ DOMAIN cache = {k \in DOMAIN Pre.cache : Pre.cache[k] \notin PreExpired}
        /\ \A k \in DOMAIN cache : cache[k] = Pre.cache[k]
        /\ ent = Restrict(Pre.ent, Range(Pre.list) \ PreExpired)

\* C17 witness: the scan found an expired entry at the front of the list and
\* an unexpired one at the back, and removed the one at the front.
C17_ExpiredInFrontOfLive ==
    /\ last.op = "Cleanup"
    /\ Len(Pre.list) = 2
    /\ Pre.list[1] \in PreExpired
    /\ Pre.list[2] \notin PreExpired
    /\ list = <<Pre.list[2]>>

\* C18: the cleanup goroutine runs from construction; once StopCleanup has
\* closed the channel it stays closed and the goroutine exits eventually
\* (unless a second StopCleanup has ended the process by its panic); it exits
\* only after the stop, an exited goroutine stays exited, and
\* no scan of the cleanup runs after the exit; Get and Set can still be
\* called then, and a Get still returns the value of an unexpired entry.
C18_StopIsTerminal ==
    /\ (reaper = "running" /\ stopCh = "open")
    /\ [][/\ (stopCh = "closed") => (stopCh' = "closed")
          /\ (reaper = "exited") => (reaper' = "exited")
          /\ (reaper # reaper') => (stopCh = "closed")
          /\ (reaper = "exited") => ~(last.op # "Cleanup" /\ last'.op = "Cleanup")]_vars
    /\ [](reaper = "exited" => last.op # "Cleanup")
    /\ (stopCh = "closed") ~> (reaper = "exited" \/ last.op = "panic")
    /\ []((reaper = "exited" /\ Ready) =>
            \A k \in Keys : ENABLED Get(k) /\ ENABLED Set(k, "v1"))
    /\ []((/\ reaper = "exited"
           /\ last.op = "Get"
           /\ Present(last.key)
           /\ ~After(last.at, PreEntry(last.key).ExpiresAt)) =>
              (last.ok /\ last.val = PreEntry(last.key).Value))

\* C18 witness: after StopCleanup and the exit of the goroutine, a Set wrote
\* a key and a Get found it, while an expired entry that no scan will remove
\* is still stored.
C18_WorkingAfterStop ==
    /\ reaper = "exited"
    /\ stopCh = "closed"
    /\ last.op = "Get"
    /\ last.ok
    /\ last.at > 0
    /\ \E el \in Range(list) : After(now, ent[el].ExpiresAt)

\* C19: at most one goroutine is inside a critical section at a time; the
\* cleanup's scan reads and writes the index, the list and the entries only
\* while it holds c.mu, and no Get or Set runs its critical section while the
\* scan holds it; so the element the scan is at, which it read before its
\* last removal, has not been removed by anyone (it is in the list and the
\* index maps its key to it), and the element a Get or Set moves or removes,
\* the one the index has for the key, is in the list.
C19_OneHolder ==
    /\ Cardinality(mu) <= 1
    /\ scan.on => (mu = {"reaper"})
    /\ (last.op \in {"Get", "Set"}) => (mu = {} /\ ~scan.on)
    /\ \A i \in 1..Len(scan.at) :
          /\ scan.at[i] \in Range(list)
          /\ scan.at[i] \in DOMAIN ent
          /\ ent[scan.at[i]].Key \in DOMAIN cache
          /\ cache[ent[scan.at[i]].Key] = scan.at[i]
    /\ \A k \in DOMAIN cache : cache[k] \in Range(list)
    /\ \A el \in Range(list) : el \in DOMAIN ent

\* C19 witness: the scan holds the lock, has removed an expired element and
\* is at the element in front of it, which a Get of its key would remove as
\* expired too.
C19_ScanHoldsLockMidway ==
    /\ scan.on
    /\ mu = {"reaper"}
    /\ scan.removed = 1
    /\ Len(scan.at) = 1
    /\ After(now, ent[scan.at[1]].ExpiresAt)

\* The keys of the list, front first.
ListKeys == [i \in 1..Len(list) |-> ent[list[i]].Key]

\* C20: after a Get that found key k, a Set of k, a GetOrLoad (or
\* GetOrLoadWithFallback) that hit k or stored a loaded value for k, the
\* element of k is the front of the list; and in every state the keys of the
\* list from front to back are the stored keys in the order of their last
\* touch, most recent first, so the back element is the one touched longest
\* ago.
C20_RecencyOrder ==
    /\ ((last.op \in {"Get", "GetOrLoad"} /\ last.ok) \/ Wrote) =>
          /\ Len(list) >= 1
          /\ last.key \in DOMAIN cache
          /\ list[1] = cache[last.key]
          /\ ent[list[1]].Key = last.key
    /\ ListKeys = touched

\* C20 witness: a Get found the key at the back of a list of two and moved
\* it to the front.
C20_GetMovedBackToFront ==
    /\ last.op = "Get"
    /\ last.ok
    /\ Len(Pre.list) = 2
    /\ Pre.list[2] = PreEl(last.key)
    /\ list = <<Pre.list[2], Pre.list[1]>>

\* C21: a Get that finds its key moves the element of that key to the front
\* of the list and changes nothing else: the index, every entry (the value
\* and the ExpiresAt of the key read included) and the order of the other
\* elements are as before; a Get of a key that is not in the index changes
\* neither the index nor the list nor the entries.
C21_GetOnlyMoves ==
    /\ (last.op = "Get" /\ last.ok) =>
          /\ Present(last.key)
          /\ cache = Pre.cache
          /\ ent = Pre.ent
          /\ list = <<PreEl(last.key)>> \o Without(Pre.list, PreEl(last.key))
    /\ (last.op = "Get" /\ ~Present(last.key)) =>
          /\ ~last.ok
          /\ State = Pre

\* C21 witness: a Get found, after the clock had moved on from the write, a
\* key that stood behind another one; its entry still expires when it did.
C21_GetHitLater ==
    /\ last.op = "Get"
    /\ last.ok
    /\ Len(Pre.list) = 2
    /\ Pre.list[2] = PreEl(last.key)
    /\ ent[cache[last.key]].ExpiresAt < last.at + ttl

\* The callers whose loader is running.
InFlight == {p \in DOMAIN procs : procs[p].pc = "loading"}

\* C22: while a loader of GetOrLoad or GetOrLoadWithFallback is running,
\* however long, its caller does not hold c.mu and the lock is free between
\* the sections of the others: a Get, a Set, the lookup of another
\* caller's GetOrLoad and a scan of the cleanup can each run, whether called
\* by another goroutine or by the loader itself.
C22_LoaderOutsideLock ==
    (InFlight # {}) =>
        /\ mu \cap InFlight = {}
        /\ MuFree
        /\ Ready =>
              /\ ENABLED Cleanup
              /\ \A k \in LoadKeys :
                    /\ ENABLED Get(k)
                    /\ ENABLED Set(k, "v1")
                    /\ \A q \in DOMAIN procs \ InFlight :
                          ENABLED GetOrLoadLookup(q, k)

\* C22 witness: while the loader of one caller was still running, another
\* caller's GetOrLoad missed, loaded and stored its value in a cache at
\* capacity.
C22_LoadedDuringLoad ==
    /\ last.op = "Loaded"
    /\ last.by = "p2"
    /\ procs["p1"].pc = "loading"
    /\ procs["p1"].key # last.key
    /\ Len(Pre.list) = capacity

\* C23: a GetOrLoad whose lookup misses calls its own loader whether or not
\* loaders of other callers are running for the same key: after the miss the
\* caller is in its loader, it has made one loader call, and the loaders
\* that were running for the key are running still.
C23_NoCoalescing ==
    (last.op = "Miss") =>
        /\ last.calls = 1
        /\ procs[last.by] = [pc |-> "loading", key |-> last.key]
        /\ InFlight = Loading(last.key, last.by) \cup {last.by}
               \cup {q \in InFlight : procs[q].key # last.key}
        /\ Cardinality(Loading(last.key, Nil)) = Cardinality(Loading(last.key, last.by)) + 1

\* C23 witness: a second caller missed a key that is not stored while the
\* loader of the first caller was running for that key: two loaders for one
\* missing key.
C23_TwoLoadersInFlight ==
    /\ last.op = "Miss"
    /\ Loading(last.key, last.by) # {}
    /\ Cardinality(Loading(last.key, Nil)) = 2
    /\ last.key \notin DOMAIN cache
    /\ ~Present(last.key)

\* C24: when a key was written by another caller between the lookup of a
\* GetOrLoad that missed it and the store after its loader, and is stored at
\* the store, the GetOrLoad returns the value of its own loader and the entry
\* of the key then holds that value, with ExpiresAt counted from the store,
\* in the element it had, now at the front; and in every state of these
\* interleavings the list and the index hold at most capacity entries, they
\* are in bijection, and no key is in the list twice.
C24_LastWriterWins ==
    /\ (last.op = "Loaded" /\ last.key \in last.written /\ Present(last.key)) =>
          /\ last.ok
          /\ last.val = last.arg
          /\ cache[last.key] = PreEl(last.key)
          /\ ent[cache[last.key]] = Entry(last.key, last.arg, last.at + ttl)
          /\ list[1] = cache[last.key]
          /\ Len(list) = Len(Pre.list)
    /\ Len(list) <= capacity
    /\ Cardinality(DOMAIN cache) = Len(list)
    /\ \A i, j \in 1..Len(list) : (ent[list[i]].Key = ent[list[j]].Key) => (i = j)
    /\ \A i \in 1..Len(list) :
          /\ ent[list[i]].Key \in DOMAIN cache
          /\ cache[ent[list[i]].Key] = list[i]

\* C24 witness: the store after the loader found the key written by another
\* caller with another value and an earlier expiry, and overwrote both.
C24_OverwroteOtherWriter ==
    /\ last.op = "Loaded"
    /\ last.key \in last.written
    /\ Present(last.key)
    /\ PreEntry(last.key).Value # last.arg
    /\ PreEntry(last.key).ExpiresAt < last.at + ttl
    /\ ent[cache[last.key]].Value = last.arg

\* Key k has an entry in the list or the index that the clock has passed.
StaysExpired(k) ==
    \/ \E el \in Range(list) : ent[el].Key = k /\ After(now, ent[el].ExpiresAt)
    \/ k \in DOMAIN cache /\ After(now, ent[cache[k]].ExpiresAt)

\* C25: while the cleanup goroutine runs and its ticks keep occurring, an
\* entry that the clock has passed does not stay: eventually no such entry of
\* its key is in the list or the index (or the goroutine has exited after a
\* StopCleanup, or a second StopCleanup has ended the process), whether or
\* not any Get or Set follows.
C25_ExpiredEventuallyRemoved ==
    \A k \in Keys :
        StaysExpired(k) ~> (~StaysExpired(k) \/ reaper = "exited" \/ last.op = "panic")

\* C25 witness: a scan found both entries of the cache expired, removed them
\* and left the cache empty.
C25_ScanEmptiedCache ==
    /\ last.op = "Cleanup"
    /\ Len(Pre.list) = 2
    /\ Range(Pre.list) = PreExpired
    /\ list = << >>
    /\ cache = << >>

\* C26: StopCleanup is not guarded: it can be called in any state, also
\* when the channel is closed.  The call that finds the channel open closes
\* it and returns; the channel is closed once and stays closed; a call that
\* finds it closed does not return: it panics on the close of the closed
\* channel, the state is left as it was, and nothing runs after the panic.
C26_SecondStopPanics ==
    /\ [](Ready => ENABLED StopCleanup)
    /\ [][/\ (stopCh = "closed") => (stopCh' = "closed")
          /\ (last.op = "none" /\ last'.op = "StopCleanup") =>
                (stopCh = "open" /\ stopCh' = "closed")
          /\ (stopCh = "closed" /\ last.op = "none") => (last'.op # "StopCleanup")
          /\ (last'.op = "panic") =>
                /\ stopCh = "closed"
                /\ ~last'.ok
                /\ State' = State
                /\ reaper' = reaper
          /\ last.op # "panic"]_vars

\* C26 witness: a second StopCleanup, called before the goroutine had taken
\* notice of the first, has panicked, with entries in the cache.
C26_Panicked ==
    /\ last.op = "panic"
    /\ stopCh = "closed"
    /\ reaper = "running"
    /\ Len(list) >= 1

\* C27: a successful SaveToFile writes one tuple for each element of the
\* list, in the order of the list from the front (most recently used) to the
\* back, each the JSON object of that element's key, value and expiresAt,
\* whether the entry has expired or not; and the cache after the call holds
\* what it held before it: the same index, list order and entries.
C27_SaveWritesListOrder ==
    (last.op = "SaveToFile" /\ last.ok) =>
        /\ file.kind = "snapshot"
        /\ Len(file.entries) = Len(Pre.list)
        /\ \A i \in 1..Len(Pre.list) :
              LET e == Pre.ent[Pre.list[i]] IN
              /\ file.entries[i].Key = e.Key
              /\ file.entries[i].Value = Marshal(e.Value)
              /\ file.entries[i].ExpiresAt = FormatTime(e.ExpiresAt)
        /\ State = Pre

\* C27 witness: a cache of two entries, the one at the back expired and the
\* one at the front not, has been saved.
C27_SavedExpiredAndLive ==
    /\ last.op = "SaveToFile"
    /\ last.ok
    /\ Len(Pre.list) = 2
    /\ After(last.at, Pre.ent[Pre.list[2]].ExpiresAt)
    /\ ~After(last.at, Pre.ent[Pre.list[1]].ExpiresAt)
    /\ Len(file.entries) = 2

\* The saved entries whose ExpiresAt is in the future at time t, most
\* recently used first.
SavedLive(t) == SelectSeq(saved, LAMBDA e : Before(t, e.ExpiresAt))

\* C28: after a successful LoadFromFile the list holds the snapshot's live
\* tuples in the reverse of the file's order: the first live tuple of the
\* file is at the back (least recently used), the last one at the front.
\* When the file is the one this cache saved, the keys from front to back
\* are those of the saved live entries from back to front, so the most
\* recently used of them is at the back, the entry the next eviction
\* removes, and each loaded entry carries the saved ExpiresAt.
C28_LoadReversesOrder ==
    (last.op = "LoadFromFile" /\ last.ok) =>
        LET live == Live(last.arg, last.at)
            n    == Len(live)
            sl   == SavedLive(last.at)
        IN  /\ Len(list) = n
            /\ \A i \in 1..n : ent[list[i]] = live[n + 1 - i]
            /\ (last.arg = Snapshot(Encode(saved))) =>
                  /\ Len(sl) = n
                  /\ \A i \in 1..n :
                        /\ ent[list[i]].Key = sl[n + 1 - i].Key
                        /\ ent[list[i]].ExpiresAt = sl[n + 1 - i].ExpiresAt
                  /\ (n >= 1) =>
                        /\ ent[Back(list)].Key = sl[1].Key
                        /\ sl[1].Key \notin DOMAIN ejectOldest(State).cache

\* C28 witness: the cache's own file of two live entries with different
\* ExpiresAt was loaded at a later time: the saved front entry is at the back
\* with its saved ExpiresAt, which is not a ttl after the load for both.
C28_LoadedOwnFileReversed ==
    /\ last.op = "LoadFromFile"
    /\ last.ok
    /\ last.arg = Snapshot(Encode(saved))
    /\ Len(saved) = 2
    /\ Len(list) = 2
    /\ saved[1].Key # saved[2].Key
    /\ saved[1].ExpiresAt # saved[2].ExpiresAt
    /\ ent[list[2]].Key = saved[1].Key
    /\ ent[list[2]].ExpiresAt = saved[1].ExpiresAt
    /\ \E i \in 1..2 : ent[list[i]].ExpiresAt # last.at + ttl

\* C29: LoadFromFile does not enforce the capacity, a successful load leaves
\* one entry for each live tuple of the snapshot however many they are, and
\* the excess lasts until the next write only: with capacity >= 1, after a
\* Set of a new key into a cache whose index and list agree, the number of
\* entries is at most the capacity.
C29_SetRestoresCapacity ==
    /\ (last.op = "LoadFromFile" /\ last.ok) =>
          Len(list) = Len(Live(last.arg, last.at))
    /\ (/\ capacity >= 1
        /\ Wrote
        /\ ~Present(last.key)
        /\ Cardinality(DOMAIN Pre.cache) = Len(Pre.list)) =>
          Len(list) <= capacity

====
